---- MODULE Spec2Model ----
(***************************************************************************)
(* Accounting core of divvy-contracts: the TokenVault share ledger         *)
(* (src/src/token_vault.rs) and the Stash that owns one vault per token,   *)
(* a per-contributor pending-deposit area and an authorization map         *)
(* (src/src/stash.rs).                                                     *)
(*                                                                         *)
(* Persistent collections are modelled at the level of contract storage:   *)
(* a near_sdk::collections map keeps only its key prefix in the owning     *)
(* struct and reads/writes storage at prefix ++ key, so two maps created   *)
(* over the same prefix are one map.  Stash.authorized_users and every     *)
(* TokenVault.authorized_users are created over b"a"; every contributor's  *)
(* UnorderedMap of pending deposits is created over b"d".                  *)
(*                                                                         *)
(* A call that panics is discarded as a whole by the host: the state is    *)
(* the one before the call and only the recorded outcome changes.          *)
(***************************************************************************)
EXTENDS Integers, FiniteSets, Sequences, TLC

\* ------------------------------------------------------------------ bounds
\* Largest value of the 128-bit accounting domain, scaled down (u128::MAX).
U128_MAX == 7
\* yoctoNEAR per NEAR (10^24 in near-token), scaled down.
ONE_NEAR == 2
\* Bytes that one new entry of Stash.vaults adds to storage, scaled down.
VAULT_BYTES == 1
\* env::storage_byte_cost() in yoctoNEAR, scaled down.
STORAGE_BYTE_COST == 1
\* Largest amount or share count passed to a call.
MaxAmount == 2
\* Number of successful calls made to one Stash.
MaxCalls == 5

Accounts == {"alice", "bob"}
\* The account that constructs the Stash (env::predecessor_account_id() in new).
Creator == "alice"
\* Token contract ids; doge-token.near stands for any id outside TOKEN_MAP.
Tokens == {"usdt-token.near", "usdc-token.near", "doge-token.near"}
TOKEN_MAP == {"usdt-token.near", "usdc-token.near"}

Amounts == 0..MaxAmount \cup {U128_MAX}
\* Attached deposits in yoctoNEAR: none, the one-yocto confirmation, the price
\* of a new vault entry, and the caller-chosen amounts.
Attached == {0, 1, VAULT_BYTES * STORAGE_BYTE_COST} \cup Amounts

VARIABLES
    overflow_checks,    \* build profile: TRUE = arithmetic overflow panics, FALSE = it wraps
    authorized_users,   \* storage under b"a": account -> bool
    vaults,             \* Stash.vaults (b"v"): token -> TokenVault struct
    shares,             \* storage under each vault's shares prefix: id -> (account -> u128)
    deposited_amounts,  \* Stash.deposited_amounts (b"d"): account -> UnorderedMap struct (its length)
    d_index,            \* storage under b"di": token -> index
    d_keys,             \* storage under b"dk": index -> token
    d_values,           \* storage under b"dv": index -> u128
    last,               \* the last call that succeeded: operation, arguments, result, scheduled transfers
    calls,              \* number of calls that succeeded
    recorded            \* per token: value recorded by deposit minus amount debited by withdraw

vars == <<overflow_checks, authorized_users, vaults, shares, deposited_amounts,
          d_index, d_keys, d_values, last, calls, recorded>>

\* ------------------------------------------------------------ storage maps
\* A map is a function whose domain is the set of keys present.
EmptyMap == [k \in {} |-> 0]
Has(m, k) == k \in DOMAIN m
Get(m, k, default) == IF k \in DOMAIN m THEN m[k] ELSE default
Put(m, k, v) == [x \in DOMAIN m \cup {k} |-> IF x = k THEN v ELSE m[x]]
Del(m, k) == [x \in DOMAIN m \ {k} |-> m[x]]

\* The persistent state as one record, so that a handler is a function of it.
State == [authorized_users |-> authorized_users, vaults |-> vaults, shares |-> shares,
          deposited_amounts |-> deposited_amounts,
          d_index |-> d_index, d_keys |-> d_keys, d_values |-> d_values]

\* ------------------------------------------------------------- arithmetic
Overflows(x) == x < 0 \/ x > U128_MAX
ToU128(x) == x % (U128_MAX + 1)
\* u128 arithmetic of the build: the exact result, a panic, or the wrapped result.
Checked(x, msg) ==
    IF ~Overflows(x) THEN [err |-> "", val |-> x]
    ELSE IF overflow_checks THEN [err |-> msg, val |-> 0]
    ELSE [err |-> "", val |-> ToU128(x)]

ERR_UNAUTHORIZED == "Caller is not authorized"
ERR_ADD == "attempt to add with overflow"
ERR_SUB == "attempt to subtract with overflow"
ERR_MUL == "attempt to multiply with overflow"
ERR_DIV == "attempt to divide by zero"

\* -------------------------------------------------------------- TokenVault
\* Outcome of a handler: err = "" on success, the panic message otherwise.
Fail(s, msg) == [err |-> msg, ret |-> 0, st |-> s, vault |-> [id |-> ""], transfers |-> <<>>]

\* TokenVault::new with the allow-list assertion left out.
TokenVault_new_no_allowlist(s, id, token_type, creator) ==
    [err |-> "", ret |-> 0,
     st |-> [s EXCEPT !.authorized_users = Put(@, creator, TRUE)],
     vault |-> [id |-> id, token_type |-> token_type,
                total_assets |-> 0, shares_total_supply |-> 0],
     transfers |-> <<>>]

\* TokenVault::new: totals zero, creator authorized under b"a"; the shares map
\* lives under the prefix derived from id.
TokenVault_new(s, id, token_type, creator) ==
    IF token_type \notin TOKEN_MAP THEN Fail(s, "Token is not on the allowed list")
    ELSE [err |-> "", ret |-> 0,
          st |-> [s EXCEPT !.authorized_users = Put(@, creator, TRUE)],
          vault |-> [id |-> id, token_type |-> token_type,
                     total_assets |-> 0, shares_total_supply |-> 0],
          transfers |-> <<>>]

authorize_user(s, user) == [s EXCEPT !.authorized_users = Put(@, user, TRUE)]

deauthorize_user(s, user) == [s EXCEPT !.authorized_users = Del(@, user)]

assert_authorized(s, caller) == Get(s.authorized_users, caller, FALSE)

SharesOf(s, v) == Get(s.shares, v.id, EmptyMap)

calculate_share(v, assets) ==
    IF v.total_assets = 0 \/ v.shares_total_supply = 0 THEN [err |-> "", val |-> assets]
    ELSE LET p == Checked(assets * v.shares_total_supply, ERR_MUL)
         IN IF p.err # "" THEN p ELSE [err |-> "", val |-> p.val \div v.total_assets]

preview_deposit(s, v, sender, assets) ==
    IF ~assert_authorized(s, sender) THEN Fail(s, ERR_UNAUTHORIZED)
    ELSE LET sender_balance == Get(SharesOf(s, v), sender, 0)
             cs == calculate_share(v, assets)
         IN IF cs.err # "" THEN Fail(s, cs.err)
            ELSE LET r == Checked(cs.val + sender_balance, ERR_ADD)
                 IN IF r.err # "" THEN Fail(s, r.err)
                    ELSE [err |-> "", ret |-> r.val, st |-> s, vault |-> v, transfers |-> <<>>]

TokenVault_add_liquidity(s, v, sender, amount) ==
    IF ~assert_authorized(s, sender) THEN Fail(s, ERR_UNAUTHORIZED)
    ELSE LET cs == calculate_share(v, amount)
         IN IF cs.err # "" THEN Fail(s, cs.err)
            ELSE LET minted == cs.val
                     ta == Checked(v.total_assets + amount, ERR_ADD)
                     ts == Checked(v.shares_total_supply + minted, ERR_ADD)
                     sender_balance == Get(SharesOf(s, v), sender, 0)
                     nb == Checked(sender_balance + minted, ERR_ADD)
                 IN IF ta.err # "" THEN Fail(s, ta.err)
                    ELSE IF ts.err # "" THEN Fail(s, ts.err)
                    ELSE IF nb.err # "" THEN Fail(s, nb.err)
                    ELSE [err |-> "", ret |-> minted,
                          st |-> [s EXCEPT !.shares = Put(@, v.id, Put(SharesOf(s, v), sender, nb.val))],
                          vault |-> [v EXCEPT !.total_assets = ta.val,
                                              !.shares_total_supply = ts.val],
                          transfers |-> <<>>]

\* TokenVault::remove_liquidity with the deauthorization at a zero balance left out.
TokenVault_remove_liquidity_no_deauthorize(s, v, sender, burned) ==
    IF ~assert_authorized(s, sender) THEN Fail(s, ERR_UNAUTHORIZED)
    ELSE LET sender_balance == Get(SharesOf(s, v), sender, 0)
         IN IF ~(sender_balance >= burned) THEN Fail(s, "Not enough shares to withdraw")
            ELSE LET p == Checked(v.total_assets * burned, ERR_MUL)
                 IN IF p.err # "" THEN Fail(s, p.err)
                    ELSE IF v.shares_total_supply = 0 THEN Fail(s, ERR_DIV)
                    ELSE LET assets == p.val \div v.shares_total_supply
                             ta == Checked(v.total_assets - assets, ERR_SUB)
                             ts == Checked(v.shares_total_supply - burned, ERR_SUB)
                             new_balance == sender_balance - burned
                             s1 == [s EXCEPT !.shares = Put(@, v.id, Put(SharesOf(s, v), sender, new_balance))]
                         IN IF ta.err # "" THEN Fail(s, ta.err)
                            ELSE IF ts.err # "" THEN Fail(s, ts.err)
                            ELSE [err |-> "", ret |-> assets,
                                  st |-> s1,
                                  vault |-> [v EXCEPT !.total_assets = ta.val,
                                                      !.shares_total_supply = ts.val],
                                  transfers |-> <<>>]

TokenVault_remove_liquidity(s, v, sender, burned) ==
    IF ~assert_authorized(s, sender) THEN Fail(s, ERR_UNAUTHORIZED)
    ELSE LET sender_balance == Get(SharesOf(s, v), sender, 0)
         IN IF ~(sender_balance >= burned) THEN Fail(s, "Not enough shares to withdraw")
            ELSE LET p == Checked(v.total_assets * burned, ERR_MUL)
                 IN IF p.err # "" THEN Fail(s, p.err)
                    ELSE IF v.shares_total_supply = 0 THEN Fail(s, ERR_DIV)
                    ELSE LET assets == p.val \div v.shares_total_supply
                             ta == Checked(v.total_assets - assets, ERR_SUB)
                             ts == Checked(v.shares_total_supply - burned, ERR_SUB)
                             new_balance == sender_balance - burned
                             s1 == [s EXCEPT !.shares = Put(@, v.id, Put(SharesOf(s, v), sender, new_balance))]
                         IN IF ta.err # "" THEN Fail(s, ta.err)
                            ELSE IF ts.err # "" THEN Fail(s, ts.err)
                            ELSE [err |-> "", ret |-> assets,
                                  st |-> IF new_balance = 0 THEN deauthorize_user(s1, sender) ELSE s1,
                                  vault |-> [v EXCEPT !.total_assets = ta.val,
                                                      !.shares_total_supply = ts.val],
                                  transfers |-> <<>>]

\* ------------------------------------------ near_sdk::collections::UnorderedMap
\* UnorderedMap::new(b"d") keeps in its struct only the length of its key and
\* value vectors; the key index (b"di"), the keys (b"dk") and the values (b"dv")
\* are read and written in storage, which every map over b"d" shares.
ERR_INCONSISTENT_STATE == "The collection is an inconsistent state"
ERR_INDEX_OUT_OF_BOUNDS == "Index out of bounds"

UMFail(s, len, msg) == [err |-> msg, s |-> s, len |-> len, some |-> FALSE, val |-> 0]

\* UnorderedMap::get: index lookup, then Vector::get_raw of the value.
UnorderedMap_get(s, len, key) ==
    IF ~Has(s.d_index, key) THEN [err |-> "", s |-> s, len |-> len, some |-> FALSE, val |-> 0]
    ELSE LET i == s.d_index[key]
         IN IF i >= len \/ ~Has(s.d_values, i) THEN UMFail(s, len, ERR_INCONSISTENT_STATE)
            ELSE [err |-> "", s |-> s, len |-> len, some |-> TRUE, val |-> s.d_values[i]]

\* UnorderedMap::insert: replace the value at the key's index, or push key and value.
UnorderedMap_insert(s, len, key, value) ==
    IF Has(s.d_index, key)
    THEN LET i == s.d_index[key]
         IN IF i >= len THEN UMFail(s, len, ERR_INDEX_OUT_OF_BOUNDS)
            ELSE IF ~Has(s.d_values, i) THEN UMFail(s, len, ERR_INCONSISTENT_STATE)
            ELSE [err |-> "", s |-> [s EXCEPT !.d_values = Put(@, i, value)],
                  len |-> len, some |-> TRUE, val |-> s.d_values[i]]
    ELSE [err |-> "",
          s |-> [s EXCEPT !.d_index = Put(@, key, len),
                          !.d_keys = Put(@, len, key),
                          !.d_values = Put(@, len, value)],
          len |-> len + 1, some |-> FALSE, val |-> 0]

\* Vector::swap_remove_raw on the vector stored in m with length len.
Vector_swap_remove(m, len, i) ==
    IF i >= len THEN [err |-> ERR_INDEX_OUT_OF_BOUNDS, m |-> m]
    ELSE IF ~Has(m, len - 1) THEN [err |-> ERR_INCONSISTENT_STATE, m |-> m]
    ELSE IF i + 1 = len THEN [err |-> "", m |-> Del(m, len - 1)]
    ELSE IF ~Has(m, i) THEN [err |-> ERR_INCONSISTENT_STATE, m |-> m]
    ELSE [err |-> "", m |-> Put(Del(m, len - 1), i, m[len - 1])]

\* UnorderedMap::remove: fix the key index, then swap-remove key and value.
UnorderedMap_remove(s, len, key) ==
    IF ~Has(s.d_index, key) THEN [err |-> "", s |-> s, len |-> len, some |-> FALSE, val |-> 0]
    ELSE LET i == s.d_index[key]
         IN IF len = 0
            THEN UMFail(s, len, IF overflow_checks THEN ERR_SUB ELSE ERR_INCONSISTENT_STATE)
            ELSE IF len # 1 /\ ~Has(s.d_keys, len - 1) THEN UMFail(s, len, ERR_INCONSISTENT_STATE)
            ELSE LET idx == IF len = 1 \/ s.d_keys[len - 1] = key
                            THEN Del(s.d_index, key)
                            ELSE Put(Del(s.d_index, key), s.d_keys[len - 1], i)
                     ks == Vector_swap_remove(s.d_keys, len, i)
                     vs == Vector_swap_remove(s.d_values, len, i)
                 IN IF ks.err # "" THEN UMFail(s, len, ks.err)
                    ELSE IF vs.err # "" THEN UMFail(s, len, vs.err)
                    ELSE [err |-> "",
                          s |-> [s EXCEPT !.d_index = idx, !.d_keys = ks.m, !.d_values = vs.m],
                          len |-> len - 1, some |-> TRUE, val |-> s.d_values[i]]

\* ------------------------------------------------------------------- Stash
Done(s, ret, transfers) ==
    [err |-> "", ret |-> ret, st |-> s, vault |-> [id |-> ""], transfers |-> transfers]

\* internal_get_deposits: the caller's stored map, or a new empty one over b"d".
internal_get_deposits(s, sender_id) == Get(s.deposited_amounts, sender_id, 0)

is_allowlisted_token(s, token_id) == Has(s.vaults, token_id)

\* internal_add_vault with the ERR_STORAGE_DEPOSIT assertion left out.
internal_add_vault_no_stake_assert(s, vault, attached) ==
    Done([s EXCEPT !.vaults = Put(@, vault.token_type, vault)], 0, <<>>)

\* internal_add_vault: insert (or overwrite) the vault, then check that the
\* attached deposit pays for the storage the insert added.
internal_add_vault(s, vault, attached) ==
    LET delta == IF Has(s.vaults, vault.token_type) THEN 0 ELSE VAULT_BYTES
    IN IF ~(delta * STORAGE_BYTE_COST <= attached) THEN Fail(s, "ERR_STORAGE_DEPOSIT")
       ELSE Done([s EXCEPT !.vaults = Put(@, vault.token_type, vault)], 0, <<>>)

\* Stash::add_vault.  The vault is built before the storage snapshot; its
\* shares prefix is a function of the token, the constructor's only argument.
Stash_add_vault(s, caller, token, attached) ==
    LET nv == TokenVault_new(s, token, token, caller)
        r == internal_add_vault(nv.st, nv.vault, attached)
    IN IF nv.err # "" THEN Fail(s, nv.err)
       ELSE IF r.err # "" THEN Fail(s, r.err)
       ELSE r

Stash_authorize_contributor(s, caller, user) ==
    Done([s EXCEPT !.authorized_users = Put(@, user, TRUE)], 0, <<>>)

internal_deposit(s, sender_id, token_id, amount) ==
    IF ~is_allowlisted_token(s, token_id) THEN Fail(s, "Token is not on the allowed list")
    ELSE LET len == internal_get_deposits(s, sender_id)
             g == UnorderedMap_get(s, len, token_id)
             sum == Checked(amount + (IF g.some THEN g.val ELSE 0), ERR_ADD)
             ins == UnorderedMap_insert(s, len, token_id, sum.val)
         IN IF g.err # "" THEN Fail(s, g.err)
            ELSE IF sum.err # "" THEN Fail(s, sum.err)
            ELSE IF ins.err # "" THEN Fail(s, ins.err)
            ELSE Done([ins.s EXCEPT !.deposited_amounts = Put(@, sender_id, ins.len)],
                      sum.val, <<>>)

Stash_deposit(s, caller, token_id, attached) ==
    IF ~assert_authorized(s, caller) THEN Fail(s, ERR_UNAUTHORIZED)
    ELSE internal_deposit(s, caller, token_id, attached)

Stash_add_liquidity(s, caller, token_id, amount) ==
    IF ~assert_authorized(s, caller) THEN Fail(s, ERR_UNAUTHORIZED)
    ELSE IF ~Has(s.vaults, token_id) THEN Fail(s, "ERR_NO_Stash")
    ELSE LET stash == s.vaults[token_id]
             g == UnorderedMap_get(s, internal_get_deposits(s, caller), stash.token_type)
             deposit == IF g.some THEN g.val ELSE 0
             r == TokenVault_add_liquidity(s, stash, caller, amount)
         IN IF g.err # "" THEN Fail(s, g.err)
            ELSE IF ~(deposit >= amount) THEN Fail(s, "ERR_NOT_ENOUGH")
            ELSE IF r.err # "" THEN Fail(s, r.err)
            ELSE Done([r.st EXCEPT !.vaults = Put(@, token_id, r.vault)], r.ret, <<>>)

Stash_remove_liquidity(s, caller, token_id, burned) ==
    IF ~assert_authorized(s, caller) THEN Fail(s, ERR_UNAUTHORIZED)
    ELSE IF ~Has(s.vaults, token_id) THEN Fail(s, "ERR_NO_Stash")
    ELSE LET stash == s.vaults[token_id]
             r == TokenVault_remove_liquidity(s, stash, caller, burned)
             s1 == [r.st EXCEPT !.vaults = Put(@, token_id, r.vault)]
             len == internal_get_deposits(s1, caller)
             g == UnorderedMap_get(s1, len, stash.token_type)
             sum == Checked((IF g.some THEN g.val ELSE 0) + r.ret, ERR_ADD)
             ins == UnorderedMap_insert(s1, len, stash.token_type, sum.val)
         IN IF r.err # "" THEN Fail(s, r.err)
            ELSE IF g.err # "" THEN Fail(s, g.err)
            ELSE IF sum.err # "" THEN Fail(s, sum.err)
            ELSE IF ins.err # "" THEN Fail(s, ins.err)
            ELSE Done([ins.s EXCEPT !.deposited_amounts = Put(@, caller, ins.len)],
                      r.ret, <<>>)

\* NearToken::from_near: the amount taken as whole NEAR, in yoctoNEAR.
from_near(amount) == Checked(amount * ONE_NEAR, ERR_MUL)

\* Stash::withdraw with the assertion available_amount >= amount left out.
Stash_withdraw_no_balance_assert(s, caller, token_id, amount, attached) ==
    IF attached # 1 THEN Fail(s, "Requires attached deposit of exactly 1 yoctoNEAR")
    ELSE IF ~assert_authorized(s, caller) THEN Fail(s, ERR_UNAUTHORIZED)
    ELSE IF ~Has(s.deposited_amounts, caller)
    THEN Fail(s, "called Option::unwrap() on a None value")
    ELSE LET len == s.deposited_amounts[caller]
             g == UnorderedMap_get(s, len, token_id)
             available_amount == g.val
             rm == UnorderedMap_remove(s, len, token_id)
             ins == UnorderedMap_insert(s, len, token_id, available_amount - amount)
             upd == IF available_amount = amount THEN rm ELSE ins
             s1 == IF available_amount = amount /\ upd.len = 0
                   THEN [upd.s EXCEPT !.authorized_users = Del(@, caller)]
                   ELSE upd.s
             s2 == [s1 EXCEPT !.deposited_amounts = Put(@, caller, upd.len)]
             value == from_near(amount)
         IN IF g.err # "" THEN Fail(s, g.err)
            ELSE IF ~g.some THEN Fail(s, "ERR_NO_TOKEN")
            ELSE IF upd.err # "" THEN Fail(s, upd.err)
            ELSE IF value.err # "" THEN Fail(s, value.err)
            ELSE Done(s2, 0, <<[receiver_id |-> caller, yocto |-> value.val]>>)

Stash_withdraw(s, caller, token_id, amount, attached) ==
    IF attached # 1 THEN Fail(s, "Requires attached deposit of exactly 1 yoctoNEAR")
    ELSE IF ~assert_authorized(s, caller) THEN Fail(s, ERR_UNAUTHORIZED)
    ELSE IF ~Has(s.deposited_amounts, caller)
    THEN Fail(s, "called Option::unwrap() on a None value")
    ELSE LET len == s.deposited_amounts[caller]
             g == UnorderedMap_get(s, len, token_id)
             available_amount == g.val
             rm == UnorderedMap_remove(s, len, token_id)
             ins == UnorderedMap_insert(s, len, token_id, available_amount - amount)
             upd == IF available_amount = amount THEN rm ELSE ins
             s1 == IF available_amount = amount /\ upd.len = 0
                   THEN [upd.s EXCEPT !.authorized_users = Del(@, caller)]
                   ELSE upd.s
             s2 == [s1 EXCEPT !.deposited_amounts = Put(@, caller, upd.len)]
             value == from_near(amount)
         IN IF g.err # "" THEN Fail(s, g.err)
            ELSE IF ~g.some THEN Fail(s, "ERR_NO_TOKEN")
            ELSE IF ~(available_amount >= amount) THEN Fail(s, "ERR_NOT_ENOUGH")
            ELSE IF upd.err # "" THEN Fail(s, upd.err)
            ELSE IF value.err # "" THEN Fail(s, value.err)
            ELSE Done(s2, 0, <<[receiver_id |-> caller, yocto |-> value.val]>>)

\* ----------------------------------------------------------------- actions
\* A call commits its state on success and is discarded on a panic.
Commit(r) ==
    /\ authorized_users' = IF r.err = "" THEN r.st.authorized_users ELSE authorized_users
    /\ vaults' = IF r.err = "" THEN r.st.vaults ELSE vaults
    /\ shares' = IF r.err = "" THEN r.st.shares ELSE shares
    /\ deposited_amounts' = IF r.err = "" THEN r.st.deposited_amounts ELSE deposited_amounts
    /\ d_index' = IF r.err = "" THEN r.st.d_index ELSE d_index
    /\ d_keys' = IF r.err = "" THEN r.st.d_keys ELSE d_keys
    /\ d_values' = IF r.err = "" THEN r.st.d_values ELSE d_values
    /\ UNCHANGED overflow_checks

\* The record of a call that succeeded; a call that panicked leaves no trace.
Call(op, caller, token, user, amount, attached, r) ==
    IF r.err = ""
    THEN [op |-> op, caller |-> caller, token |-> token, user |-> user, amount |-> amount,
          attached |-> attached, ret |-> r.ret, transfers |-> r.transfers]
    ELSE last

Counted(r) == calls < MaxCalls /\ calls' = IF r.err = "" THEN calls + 1 ELSE calls

\* The books of what went in and out: a successful call adds delta for token.
Recorded(r, token, delta) ==
    recorded' = IF r.err = "" /\ delta # 0
                THEN Put(recorded, token, Get(recorded, token, 0) + delta)
                ELSE recorded

AddVault(caller, token, attached) ==
    LET r == Stash_add_vault(State, caller, token, attached)
    IN Counted(r) /\ Commit(r) /\ last' = Call("add_vault", caller, token, "", 0, attached, r)
       /\ UNCHANGED recorded

AuthorizeContributor(caller, user) ==
    LET r == Stash_authorize_contributor(State, caller, user)
    IN Counted(r) /\ Commit(r)
       /\ last' = Call("authorize_contributor", caller, "", user, 0, 0, r)
       /\ UNCHANGED recorded

Deposit(caller, token, attached) ==
    LET r == Stash_deposit(State, caller, token, attached)
    IN Counted(r) /\ Commit(r) /\ last' = Call("deposit", caller, token, "", attached, attached, r)
       /\ Recorded(r, token, attached)

AddLiquidity(caller, token, amount) ==
    LET r == Stash_add_liquidity(State, caller, token, amount)
    IN Counted(r) /\ Commit(r) /\ last' = Call("add_liquidity", caller, token, "", amount, 0, r)
       /\ UNCHANGED recorded

RemoveLiquidity(caller, token, amount) ==
    LET r == Stash_remove_liquidity(State, caller, token, amount)
    IN Counted(r) /\ Commit(r)
       /\ last' = Call("remove_liquidity", caller, token, "", amount, 0, r)
       /\ UNCHANGED recorded

Withdraw(caller, token, amount, attached) ==
    LET r == Stash_withdraw(State, caller, token, amount, attached)
    IN Counted(r) /\ Commit(r) /\ last' = Call("withdraw", caller, token, "", amount, attached, r)
       /\ Recorded(r, token, 0 - amount)

NoCall == [op |-> "new", caller |-> Creator, token |-> "", user |-> "", amount |-> 0,
           attached |-> 0, ret |-> 0, transfers |-> <<>>]

\* Stash::new: the creator is the only authorized account, nothing else is stored.
Init ==
    /\ overflow_checks \in BOOLEAN
    /\ authorized_users = Put(EmptyMap, Creator, TRUE)
    /\ vaults = EmptyMap
    /\ shares = EmptyMap
    /\ deposited_amounts = EmptyMap
    /\ d_index = EmptyMap
    /\ d_keys = EmptyMap
    /\ d_values = EmptyMap
    /\ last = NoCall
    /\ calls = 0
    /\ recorded = EmptyMap

Next ==
    \/ \E c \in Accounts, t \in Tokens, a \in Attached : AddVault(c, t, a)
    \/ \E c \in Accounts, u \in Accounts : AuthorizeContributor(c, u)
    \/ \E c \in Accounts, t \in Tokens, a \in Attached : Deposit(c, t, a)
    \/ \E c \in Accounts, t \in Tokens, n \in Amounts : AddLiquidity(c, t, n)
    \/ \E c \in Accounts, t \in Tokens, n \in Amounts : RemoveLiquidity(c, t, n)
    \/ \E c \in Accounts, t \in Tokens, n \in Amounts, a \in {0, 1} : Withdraw(c, t, n, a)

Spec == Init /\ [][Next]_vars

\* ------------------------------------------------- one TokenVault on its own
\* The vault of the unit tests: TokenVault::new(id, token, creator), then calls
\* made directly on it by any sender.  It is kept in the slot of its token.
VaultToken == "usdt-token.near"
TheVault == vaults[VaultToken]

VaultStep(r) ==
    /\ Commit([r EXCEPT !.st = IF r.err = "" THEN [r.st EXCEPT !.vaults = Put(@, VaultToken, r.vault)]
                                ELSE r.st])
    /\ UNCHANGED <<calls, recorded>>

VaultAuthorizeUser(user) ==
    LET r == [err |-> "", ret |-> 0, st |-> authorize_user(State, user),
              vault |-> TheVault, transfers |-> <<>>]
    IN VaultStep(r) /\ last' = Call("authorize_user", "", VaultToken, user, 0, 0, r)

VaultPreviewDeposit(sender, assets) ==
    LET r == preview_deposit(State, TheVault, sender, assets)
    IN VaultStep(r) /\ last' = Call("preview_deposit", sender, VaultToken, "", assets, 0, r)

VaultAddLiquidity(sender, amount) ==
    LET r == TokenVault_add_liquidity(State, TheVault, sender, amount)
    IN VaultStep(r) /\ last' = Call("add_liquidity", sender, VaultToken, "", amount, 0, r)

VaultRemoveLiquidity(sender, burned) ==
    LET r == TokenVault_remove_liquidity(State, TheVault, sender, burned)
    IN VaultStep(r) /\ last' = Call("remove_liquidity", sender, VaultToken, "", burned, 0, r)

InitVault ==
    LET nv == TokenVault_new([authorized_users |-> EmptyMap, vaults |-> EmptyMap,
                              shares |-> EmptyMap, deposited_amounts |-> EmptyMap,
                              d_index |-> EmptyMap, d_keys |-> EmptyMap, d_values |-> EmptyMap],
                             VaultToken, VaultToken, Creator)
    IN /\ overflow_checks \in BOOLEAN
       /\ authorized_users = nv.st.authorized_users
       /\ vaults = Put(EmptyMap, VaultToken, nv.vault)
       /\ shares = EmptyMap
       /\ deposited_amounts = EmptyMap
       /\ d_index = EmptyMap
       /\ d_keys = EmptyMap
       /\ d_values = EmptyMap
       /\ last = NoCall
       /\ calls = 0
       /\ recorded = EmptyMap

NextVault ==
    \/ \E u \in Accounts : VaultAuthorizeUser(u)
    \/ \E c \in Accounts, n \in Amounts : VaultPreviewDeposit(c, n)
    \/ \E c \in Accounts, n \in Amounts : VaultAddLiquidity(c, n)
    \/ \E c \in Accounts, n \in Amounts : VaultRemoveLiquidity(c, n)

SpecVault == InitVault /\ [][NextVault]_vars

\* ------------------------------------------------------------------ claims
RECURSIVE SumMap(_)
SumMap(m) ==
    IF DOMAIN m = {} THEN 0
    ELSE LET k == CHOOSE x \in DOMAIN m : TRUE
         IN m[k] + SumMap(Del(m, k))

\* C1. Conservation: after any sequence of add_liquidity and remove_liquidity
\* calls on one vault, by any holders and with any amounts, the holders' share
\* balances sum to the vault's total share supply.
C1_Conservation ==
    SumMap(SharesOf(State, TheVault)) = TheVault.shares_total_supply

\* The same, in the builds in which arithmetic overflow panics.
C1_ConservationChecked ==
    overflow_checks => C1_Conservation

\* What the Stash reads as caller's pending balance of token: the entry of the
\* caller's UnorderedMap, or the panic the read ends in.
PendingEntry(s, caller, token) ==
    LET g == UnorderedMap_get(s, internal_get_deposits(s, caller), token)
    IN [err |-> g.err, some |-> g.some, val |-> g.val]

HasPending(s, caller, token) ==
    PendingEntry(s, caller, token).err = "" /\ PendingEntry(s, caller, token).some

PendingBalance(s, caller, token) ==
    IF HasPending(s, caller, token) THEN PendingEntry(s, caller, token).val ELSE 0

ShareBalance(s, caller, token) ==
    Get(Get(s.shares, token, EmptyMap), caller, 0)

\* C2. A successful Stash add_liquidity(caller, asset, amount) decreases the
\* caller's pending balance of the asset by exactly amount and returns the
\* number of shares the vault minted for it.
C2_AddLiquidityDebits ==
    [][last'.op = "add_liquidity" =>
          /\ PendingBalance(State', last'.caller, last'.token)
                = PendingBalance(State, last'.caller, last'.token) - last'.amount
          /\ last'.ret = ShareBalance(State', last'.caller, last'.token)
                           - ShareBalance(State, last'.caller, last'.token)]_vars

\* The scenario of the specification, computed call by call from the state
\* Stash::new leaves: add_vault(X), deposit, add_liquidity of the deposit,
\* remove_liquidity of the shares minted, withdraw of the deposit.
ScenarioToken == "usdt-token.near"
ScenarioAmount == MaxAmount
Scenario0 == [authorized_users |-> Put(EmptyMap, Creator, TRUE), vaults |-> EmptyMap,
              shares |-> EmptyMap, deposited_amounts |-> EmptyMap,
              d_index |-> EmptyMap, d_keys |-> EmptyMap, d_values |-> EmptyMap]
Scenario1 == Stash_add_vault(Scenario0, Creator, ScenarioToken, VAULT_BYTES * STORAGE_BYTE_COST)
Scenario2 == Stash_deposit(Scenario1.st, Creator, ScenarioToken, ScenarioAmount)
Scenario3 == Stash_add_liquidity(Scenario2.st, Creator, ScenarioToken, ScenarioAmount)
Scenario4 == Stash_remove_liquidity(Scenario3.st, Creator, ScenarioToken, Scenario3.ret)
Scenario5 == Stash_withdraw(Scenario4.st, Creator, ScenarioToken, ScenarioAmount, 1)

\* C3. From a freshly created stash with a single contributor, add_vault(X),
\* deposit, add_liquidity of the deposit, remove_liquidity of all shares minted
\* and withdraw of the deposit succeed at every step, and in the end the
\* contributor has no pending entry for X and is no longer authorized.
C3_Scenario ==
    /\ Scenario1.err = "" /\ Scenario2.err = "" /\ Scenario3.err = "" /\ Scenario4.err = ""
    /\ (State = Scenario4.st /\ last.op = "remove_liquidity" /\ calls = 4) =>
          /\ Scenario5.err = ""
          /\ ~HasPending(Scenario5.st, Creator, ScenarioToken)
          /\ ~assert_authorized(Scenario5.st, Creator)

\* C4. Authorization gate: every mutating Stash operation invoked by an
\* identity that is not authorized fails with Unauthorized (and so leaves the
\* vaults, pending balances and authorization map as they were).
C4_AuthorizationGate ==
    \A c \in Accounts :
        ~assert_authorized(State, c) =>
            /\ \A t \in Tokens, a \in Attached :
                  /\ Stash_add_vault(State, c, t, a).err = ERR_UNAUTHORIZED
                  /\ Stash_deposit(State, c, t, a).err = ERR_UNAUTHORIZED
            /\ \A t \in Tokens, n \in Amounts :
                  /\ Stash_add_liquidity(State, c, t, n).err = ERR_UNAUTHORIZED
                  /\ Stash_remove_liquidity(State, c, t, n).err = ERR_UNAUTHORIZED
                  /\ Stash_withdraw(State, c, t, n, 1).err = ERR_UNAUTHORIZED
            /\ \A u \in Accounts :
                  Stash_authorize_contributor(State, c, u).err = ERR_UNAUTHORIZED

\* C5. No privilege escalation: an identity becomes authorized only by creating
\* the stash (the creator is authorized from the start) or a vault, or through
\* an authorize_contributor call that names it and whose caller was authorized
\* at that moment; authorize_contributor for an already authorized target
\* changes nothing.
C5_NoPrivilegeEscalation ==
    [][/\ \A u \in Accounts :
             (assert_authorized(State', u) /\ ~assert_authorized(State, u)) =>
                 \/ last'.op = "add_vault" /\ last'.caller = u
                 \/ /\ last'.op = "authorize_contributor"
                    /\ last'.user = u
                    /\ assert_authorized(State, last'.caller)
       /\ (last'.op = "authorize_contributor" /\ assert_authorized(State, last'.user)) =>
             State' = State]_vars

\* C6. Auto-revocation: right after a successful withdraw the caller is
\* unauthorized if they hold no pending balance for any asset, and still
\* authorized if they keep a positive pending balance for at least one asset.
C6_AutoRevocation ==
    [][last'.op = "withdraw" =>
          LET c == last'.caller
          IN /\ (\A t \in Tokens : PendingBalance(State', c, t) = 0) =>
                    ~assert_authorized(State', c)
             /\ (\E t \in Tokens : PendingBalance(State', c, t) > 0) =>
                    assert_authorized(State', c)]_vars

\* C7. A successful withdraw lowers the caller's pending balance for the asset
\* by exactly amount, removes the entry when the result is zero, and changes no
\* other caller's or asset's pending balance.
C7_WithdrawDebitsExactly ==
    [][last'.op = "withdraw" =>
          LET c == last'.caller
              t == last'.token
          IN /\ PendingBalance(State', c, t) = PendingBalance(State, c, t) - last'.amount
             /\ PendingBalance(State', c, t) = 0 => ~HasPending(State', c, t)
             /\ \A c2 \in Accounts, t2 \in Tokens :
                   <<c2, t2>> # <<c, t>> =>
                       /\ HasPending(State', c2, t2) = HasPending(State, c2, t2)
                       /\ PendingBalance(State', c2, t2) = PendingBalance(State, c2, t2)]_vars

\* C9. Every successful withdraw schedules exactly one transfer, to the caller,
\* whose value in the unit of the recorded deposits (yoctoNEAR) is the amount
\* debited from the pending balance.
C9_TransferMatchesDebit ==
    [][last'.op = "withdraw" =>
          /\ Len(last'.transfers) = 1
          /\ last'.transfers[1].receiver_id = last'.caller
          /\ last'.transfers[1].yocto = last'.amount]_vars

\* C8 as stated: a withdraw (by an authorized caller, one yoctoNEAR attached)
\* whose amount exceeds the caller's pending balance for the asset fails with
\* ERR_NOT_ENOUGH.
C8_FailsWithNotEnough ==
    \A c \in Accounts, t \in Tokens, n \in Amounts :
        (assert_authorized(State, c) /\ n > PendingBalance(State, c, t)) =>
            Stash_withdraw(State, c, t, n, 1).err = "ERR_NOT_ENOUGH"

\* C8, amended: a withdraw whose amount exceeds the caller's pending balance
\* for the asset fails, changes no pending balance or authorization and
\* schedules no transfer; the failure is ERR_NOT_ENOUGH when the caller is
\* authorized, attached one yoctoNEAR and has an entry for the asset.
C8_InsufficientWithdrawFails ==
    \A c \in Accounts, t \in Tokens, n \in Amounts, a \in {0, 1} :
        n > PendingBalance(State, c, t) =>
            LET r == Stash_withdraw(State, c, t, n, a)
            IN /\ r.err # ""
               /\ r.st = State
               /\ r.transfers = <<>>
               /\ (a = 1 /\ assert_authorized(State, c) /\ HasPending(State, c, t)) =>
                     r.err = "ERR_NOT_ENOUGH"

C8_Witness ==
    \E c \in Accounts, t \in Tokens, n \in Amounts :
        /\ assert_authorized(State, c)
        /\ HasPending(State, c, t)
        /\ PendingBalance(State, c, t) > 0
        /\ n > PendingBalance(State, c, t)
        /\ Stash_withdraw(State, c, t, n, 1).err = "ERR_NOT_ENOUGH"
        /\ last.op = "deposit"

EntryFees == {0, 5000, 10000}

\* C10. A vault deposit applies the entry fee: for amount > 0 and every
\* entry_fee_bp <= 10_000, fee = amount * entry_fee_bp / 10_000, net = amount -
\* fee, total_assets grows by net, and the shares minted are net when
\* total_assets or the share supply is 0 and net * supply / total_assets otherwise.
C10_EntryFeeApplied ==
    [][(last'.op = "add_liquidity" /\ last'.amount > 0 /\ overflow_checks) =>
          \A entry_fee_bp \in EntryFees :
              LET fee == (last'.amount * entry_fee_bp) \div 10000
                  net == last'.amount - fee
              IN /\ TheVault'.total_assets = TheVault.total_assets + net
                 /\ last'.ret = IF TheVault.total_assets = 0 \/ TheVault.shares_total_supply = 0
                                THEN net
                                ELSE (net * TheVault.shares_total_supply)
                                         \div TheVault.total_assets]_vars

\* C11. A vault remove_liquidity with shares = 0, or with more shares than the
\* holder's balance, fails (with "Not enough shares to withdraw" when the
\* shares exceed the balance), and so leaves the totals, every share balance
\* and every authorization flag unchanged.
C11_InsufficientShares ==
    \A c \in Accounts, n \in Amounts :
        LET sender_balance == Get(SharesOf(State, TheVault), c, 0)
            r == TokenVault_remove_liquidity(State, TheVault, c, n)
        IN assert_authorized(State, c) =>
               /\ n > sender_balance => r.err = "Not enough shares to withdraw"
               /\ n = 0 => r.err # ""

\* A deposit of a by holder c, then the withdrawal of the minted shares, k of
\* them in a first call and the rest in a second (k = 0: all in one call).
RoundTrip(c, a, k) ==
    LET d == TokenVault_add_liquidity(State, TheVault, c, a)
        w1 == IF k = 0 THEN d ELSE TokenVault_remove_liquidity(d.st, d.vault, c, k)
        w2 == TokenVault_remove_liquidity(w1.st, w1.vault, c, d.ret - k)
    IN [deposited |-> d.err = "",
        minted |-> d.ret,
        redeemed |-> w1.err = "" /\ w2.err = "",
        assets |-> (IF k = 0 THEN 0 ELSE w1.ret) + w2.ret,
        vault |-> w2.vault]

\* C12. Round trip: from every reachable vault state, a deposit of a > 0
\* followed at once by the withdrawal of exactly the minted shares, in one call
\* or split over two, returns a assets in total and restores total_assets and
\* the share supply.
C12_RoundTrip ==
    \A c \in Accounts, a \in Amounts \ {0} :
        RoundTrip(c, a, 0).deposited =>
            \A k \in 0..(RoundTrip(c, a, 0).minted - 1) :
                LET rt == RoundTrip(c, a, k)
                IN /\ rt.redeemed
                   /\ rt.assets = a
                   /\ rt.vault.total_assets = TheVault.total_assets
                   /\ rt.vault.shares_total_supply = TheVault.shares_total_supply

C12_RoundTripChecked == overflow_checks => C12_RoundTrip

\* C13. No dilution: every successful vault withdrawal returns at most the
\* total_assets of before the call, and every successful deposit mints shares
\* s with s * total_assets_before <= amount * supply_before.
NoDilution ==
    /\ last'.op = "remove_liquidity" => last'.ret <= TheVault.total_assets
    /\ last'.op = "add_liquidity" =>
           last'.ret * TheVault.total_assets <= last'.amount * TheVault.shares_total_supply

C13_NoDilution == [][NoDilution]_vars

C13_NoDilutionChecked == [][overflow_checks => NoDilution]_vars

\* C14. preview_deposit is read-only and returns, for every reachable vault
\* state, every holder and every amount, exactly the shares that add_liquidity
\* of the same amount by that holder would mint from that state.
C14_PreviewAgrees ==
    \A c \in Accounts, a \in Amounts :
        LET d == TokenVault_add_liquidity(State, TheVault, c, a)
            pv == preview_deposit(State, TheVault, c, a)
        IN (d.err = "" /\ overflow_checks) =>
               /\ pv.err = ""
               /\ pv.st = State
               /\ pv.vault = TheVault
               /\ pv.ret = d.ret

\* C15. Re-adding a vault: add_vault for an asset that already has a vault
\* leaves that vault's total_assets, share supply and every holder's share
\* balance unchanged.
C15_ReAddKeepsVault ==
    [][(last'.op = "add_vault" /\ Has(vaults, last'.token)) =>
          /\ vaults'[last'.token].total_assets = vaults[last'.token].total_assets
          /\ vaults'[last'.token].shares_total_supply
                 = vaults[last'.token].shares_total_supply
          /\ \A c \in Accounts :
                 ShareBalance(State', c, last'.token) = ShareBalance(State, c, last'.token)]_vars

ERR_NOT_ALLOWED == "Token is not on the allowed list"

\* C16. Allow-list: in every reachable state every asset that has a vault is on
\* the allow-list; add_vault for an asset that is not on it fails with "Token
\* is not on the allowed list" and adds nothing, and deposit for an asset
\* without a vault fails and records nothing.
C16_AllowList ==
    /\ \A t \in Tokens : Has(vaults, t) => t \in TOKEN_MAP
    /\ \A c \in Accounts, t \in Tokens \ TOKEN_MAP, a \in Attached :
          LET r == Stash_add_vault(State, c, t, a)
          IN r.err = ERR_NOT_ALLOWED /\ r.st = State
    /\ \A c \in Accounts, t \in Tokens, a \in Attached :
          ~Has(vaults, t) =>
              LET r == Stash_deposit(State, c, t, a)
              IN /\ r.err # "" /\ r.st = State
                 /\ assert_authorized(State, c) => r.err = ERR_NOT_ALLOWED

C16_Witness ==
    /\ last.op = "add_vault"
    /\ Has(vaults, "usdt-token.near")
    /\ ~Has(vaults, "doge-token.near")
    /\ assert_authorized(State, "bob")
    /\ Stash_add_vault(State, "bob", "doge-token.near", MaxAmount).err = ERR_NOT_ALLOWED
    /\ Stash_deposit(State, "bob", "doge-token.near", 1).err = ERR_NOT_ALLOWED

\* C17. A successful Stash deposit raises the caller's pending balance for the
\* asset by exactly the attached value and changes nothing else: no vault's
\* totals or share balances and no other pending balance.
C17_DepositCreditsExactly ==
    [][(last'.op = "deposit" /\ overflow_checks) =>
          LET c == last'.caller
              t == last'.token
          IN /\ PendingBalance(State', c, t) = PendingBalance(State, c, t) + last'.attached
             /\ vaults' = vaults
             /\ shares' = shares
             /\ authorized_users' = authorized_users
             /\ \A c2 \in Accounts, t2 \in Tokens :
                   <<c2, t2>> # <<c, t>> =>
                       PendingBalance(State', c2, t2) = PendingBalance(State, c2, t2)]_vars

\* The storage growth that internal_add_vault measures around the insert of a
\* vault for token, in bytes.
StorageDelta(s, token) == IF Has(s.vaults, token) THEN 0 ELSE VAULT_BYTES

C19_StorageRefund ==
    [][last'.op = "add_vault" =>
          LET surplus == last'.attached
                             - StorageDelta(State, last'.token) * STORAGE_BYTE_COST
          IN last'.transfers = IF surplus > 0
                               THEN <<[receiver_id |-> last'.caller, yocto |-> surplus]>>
                               ELSE <<>>]_vars

\* C20. In every reachable state no pending entry holds the value 0: an entry
\* is either absent or strictly positive.
C20_NoZeroEntry ==
    \A c \in Accounts, t \in Tokens :
        HasPending(State, c, t) => PendingBalance(State, c, t) > 0

\* C21. Vault-level revocation on zero shares: a remove_liquidity that leaves
\* the sender's share balance at 0 removes the sender from the vault's
\* authorized users, so that the sender's next add_liquidity or
\* remove_liquidity fails with "Caller is not authorized"; one that leaves a
\* positive balance keeps the sender authorized.
C21_VaultRevocation ==
    [][last'.op = "remove_liquidity" =>
          LET c == last'.caller
              new_balance == Get(SharesOf(State', TheVault'), c, 0)
          IN /\ new_balance = 0 =>
                   /\ ~assert_authorized(State', c)
                   /\ \A n \in Amounts :
                         /\ TokenVault_add_liquidity(State', TheVault', c, n).err
                                = ERR_UNAUTHORIZED
                         /\ TokenVault_remove_liquidity(State', TheVault', c, n).err
                                = ERR_UNAUTHORIZED
             /\ new_balance > 0 => assert_authorized(State', c)]_vars

C21_Witness ==
    /\ last.op = "remove_liquidity"
    /\ last.amount > 0
    /\ Get(SharesOf(State, TheVault), last.caller, 0) = 0
    /\ ~assert_authorized(State, last.caller)
    /\ TheVault.shares_total_supply > 0

\* The sums and the product of add_liquidity(sender, amount), taken as
\* integers: TRUE when one of them does not fit in a u128.
DepositOverflows(s, v, sender, amount) ==
    LET product == amount * v.shares_total_supply
        minted == IF v.total_assets = 0 \/ v.shares_total_supply = 0 THEN amount
                  ELSE product \div v.total_assets
    IN \/ Overflows(v.total_assets + amount)
       \/ v.total_assets # 0 /\ v.shares_total_supply # 0 /\ Overflows(product)
       \/ Overflows(v.shares_total_supply + minted)
       \/ Overflows(Get(SharesOf(s, v), sender, 0) + minted)

\* C22. Overflow rejection: a vault deposit for which total_assets + amount,
\* supply + shares, balance + shares or the product amount * supply would
\* exceed 2^128 - 1 fails with an arithmetic overflow and leaves the vault
\* unchanged.
C22_OverflowRejected ==
    \A c \in Accounts, a \in Amounts :
        (assert_authorized(State, c) /\ DepositOverflows(State, TheVault, c, a)) =>
            LET r == TokenVault_add_liquidity(State, TheVault, c, a)
            IN r.err \in {ERR_ADD, ERR_MUL} /\ r.st = State

C22_OverflowRejectedChecked == overflow_checks => C22_OverflowRejected

\* The number of key-value pairs a state keeps in storage; each takes at
\* least one byte of storage usage.
RECURSIVE CountShares(_)
CountShares(m) ==
    IF DOMAIN m = {} THEN 0
    ELSE LET k == CHOOSE x \in DOMAIN m : TRUE
         IN Cardinality(DOMAIN m[k]) + CountShares(Del(m, k))

StorageEntries(s) ==
    Cardinality(DOMAIN s.authorized_users) + Cardinality(DOMAIN s.vaults)
        + Cardinality(DOMAIN s.deposited_amounts) + Cardinality(DOMAIN s.d_index)
        + Cardinality(DOMAIN s.d_keys) + Cardinality(DOMAIN s.d_values)
        + CountShares(s.shares)

\* C23. Storage metering covers every mutating entry point: a deposit,
\* add_liquidity, remove_liquidity, withdraw or authorize_contributor succeeds
\* only if the stake attached to the call pays for the storage growth it
\* causes, at the price per byte.
C23_MeteringEverywhere ==
    [][last'.op \in {"deposit", "add_liquidity", "remove_liquidity", "withdraw",
                     "authorize_contributor"} =>
          (StorageEntries(State') - StorageEntries(State)) * STORAGE_BYTE_COST
              <= last'.attached]_vars

\* From state s: an authorize_contributor of c by an authorized actor, then a
\* deposit by c, after which c is authorized and holds a positive balance.
CanReEnter(s, c) ==
    \E actor \in Accounts, t \in Tokens, n \in Attached :
        LET au == Stash_authorize_contributor(s, actor, c)
            dp == Stash_deposit(au.st, c, t, n)
        IN /\ assert_authorized(s, actor)
           /\ au.err = ""
           /\ dp.err = ""
           /\ assert_authorized(dp.st, c)
           /\ PendingBalance(dp.st, c, t) > 0

\* C24. Re-entry after auto-revocation: from every reachable state in which a
\* contributor has just been auto-revoked by a withdraw, also when it was the
\* only authorized identity, an authorization by an authorized actor followed
\* by a deposit makes the contributor authorized again with a positive
\* pending balance.
C24_ReEntry ==
    (last.op = "withdraw" /\ ~assert_authorized(State, last.caller)) =>
        CanReEnter(State, last.caller)

\* C25. Division by zero is unreachable in the vault's remove_liquidity: in
\* every reachable state, for every call that passes the authorization and
\* balance checks (also with shares = 0, an empty vault or a holder without
\* shares), the share supply is positive when it divides.
C25_NoDivisionByZero ==
    \A c \in Accounts, n \in Amounts :
        (assert_authorized(State, c) /\ Get(SharesOf(State, TheVault), c, 0) >= n) =>
            /\ TheVault.shares_total_supply > 0
            /\ TokenVault_remove_liquidity(State, TheVault, c, n).err # ERR_DIV

\* What the stash holds of token: every contributor's pending balance plus the
\* vault's total_assets.
RECURSIVE SumPending(_, _, _)
SumPending(s, cs, token) ==
    IF cs = {} THEN 0
    ELSE LET c == CHOOSE x \in cs : TRUE
         IN PendingBalance(s, c, token) + SumPending(s, cs \ {c}, token)

Holdings(s, token) ==
    SumPending(s, Accounts, token)
        + (IF Has(s.vaults, token) THEN s.vaults[token].total_assets ELSE 0)

\* C26. Solvency: for every asset and in every reachable state, the sum of all
\* contributors' pending balances plus the vault's total_assets is at most the
\* total value recorded by deposit minus the total amount debited by withdraw.
C26_Solvency ==
    overflow_checks =>
        \A t \in Tokens : Holdings(State, t) <= Get(recorded, t, 0)

\* C27. No lock-out: in every reachable state an identity that holds a
\* positive share balance in some vault of the stash is authorized, so that it
\* can redeem its shares with remove_liquidity.
C27_NoLockOut ==
    \A c \in Accounts, t \in Tokens :
        (Has(vaults, t) /\ ShareBalance(State, c, t) > 0) =>
            /\ assert_authorized(State, c)
            /\ Stash_remove_liquidity(State, c, t, ShareBalance(State, c, t)).err
                   # ERR_UNAUTHORIZED

\* C28. Contributor isolation: a call made by identity A never changes the
\* pending balance of any asset, the share balance in any vault or the
\* authorization flag of another identity B, unless B is the target of
\* authorize_contributor.
C28_Isolation ==
    [][\A b \in Accounts :
          (b # last'.caller /\ overflow_checks) =>
              /\ \A t \in Tokens :
                    /\ PendingBalance(State', b, t) = PendingBalance(State, b, t)
                    /\ HasPending(State', b, t) = HasPending(State, b, t)
                    /\ ShareBalance(State', b, t) = ShareBalance(State, b, t)
              /\ (assert_authorized(State', b) # assert_authorized(State, b)) =>
                    (last'.op = "authorize_contributor" /\ last'.user = b)]_vars

====
